---------------------------- MODULE Spec2Model ----------------------------
(***************************************************************************)
(* komootgpx (src/src/main.py): one run of main() as a state machine.      *)
(*                                                                         *)
(* main() runs four stages in sequence inside one try block:              *)
(*   make_http_request -> extract_json_from_html -> json_to_gpx ->        *)
(*   write_gpx                                                             *)
(* and its except clauses turn four exception classes into a printed      *)
(* message, a traceback and exit status 1.                                 *)
(*                                                                         *)
(* Text is modelled as TLA+ strings, character by character: Python's     *)
(* s[i:j] is Slice(s, i, j), with Python's 0-based positions.             *)
(* Numbers are integers (whole degrees / metres): the code only compares  *)
(* and copies them.                                                        *)
(***************************************************************************)
EXTENDS Integers, Sequences, FiniteSets, TLC

(***************************************************************************)
(* Bounds of the input universe.                                           *)
(***************************************************************************)
\* longest coordinate sequence of a served tour document
MaxItems == 2
\* most fragments a served page is concatenated from (marker search)
MaxPieces == 4
\* most fragments an embedded payload is concatenated from (sanitization)
MaxPayload == 3

(***************************************************************************)
(* Python str primitives.                                                  *)
(***************************************************************************)
\* s[i:j] for 0 <= i <= j <= len(s)
Slice(s, i, j) == SubSeq(s, i + 1, j)

\* s[i]
CharAt(s, i) == SubSeq(s, i + 1, i + 1)

\* the positions at which sub occurs in s
Occurrences(s, sub) ==
    {i \in 0..(Len(s) - Len(sub)) : Slice(s, i, i + Len(sub)) = sub}

\* the lowest of the positions hits that is >= start, or -1
NextAt(hits, start) ==
    LET later == {i \in hits : i >= start}
    IN  IF later = {} THEN -1 ELSE CHOOSE i \in later : \A j \in later : i <= j

\* s.find(sub, start): the lowest position >= start where sub occurs, or -1
find(s, sub, start) == NextAt(Occurrences(s, sub), start)

\* s.replace(old, new) continued from position i, hits being the positions
\* of old in s: the text up to the next occurrence is copied, the occurrence
\* replaced, and the search goes on behind it (occurrences are taken left to
\* right and do not overlap)
RECURSIVE replaceFrom(_, _, _, _, _)
replaceFrom(s, old, new, i, hits) ==
    LET j == NextAt(hits, i)
    IN  IF j = -1 THEN Slice(s, i, Len(s))
        ELSE Slice(s, i, j) \o new \o replaceFrom(s, old, new, j + Len(old), hits)

replace(s, old, new) == replaceFrom(s, old, new, 0, Occurrences(s, old))

(***************************************************************************)
(* html.unescape, as CPython implements it: every match of                 *)
(*   &(#[0-9]+;?|#[xX][0-9a-fA-F]+;?|[^\t\n\f <&#;]{1,32};?)               *)
(* is replaced, left to right, by _replace_charref of it.  The entity      *)
(* table is the part of html.entities.html5 the served pages use; the      *)
(* pages hold no hexadecimal reference and no other entity name.           *)
(***************************************************************************)
Digits == {"0", "1", "2", "3", "4", "5", "6", "7", "8", "9"}

NameStop == {"\t", "\n", "\f", " ", "<", "&", "#", ";"}

\* the names of html5 that end in ";" and those (legacy) that need not
html5 == [n \in {"amp;", "amp", "quot;", "quot", "lt;", "lt", "gt;", "gt"} |->
            CASE n \in {"amp;", "amp"}   -> "&"
              [] n \in {"quot;", "quot"} -> "\""
              [] n \in {"lt;", "lt"}     -> "<"
              [] n \in {"gt;", "gt"}     -> ">"]

\* chr(num) for the code points the pages reference
chr(num) ==
    CASE num = 34 -> "\""
      [] num = 38 -> "&"
      [] num = 92 -> "\\"
      [] OTHER    -> "?"

DigitVal(c) == CHOOSE d \in 0..9 : ToString(d) = c

\* int(s) of a string of decimal digits
RECURSIVE int(_)
int(s) == IF Len(s) = 0 THEN 0
          ELSE 10 * int(Slice(s, 0, Len(s) - 1)) + DigitVal(CharAt(s, Len(s) - 1))

\* the length of the run of decimal digits of s at position i
RECURSIVE DigitRun(_, _)
DigitRun(s, i) ==
    IF i < Len(s) /\ CharAt(s, i) \in Digits THEN 1 + DigitRun(s, i + 1) ELSE 0

\* the length, at most 32, of the run of name characters of s at position i,
\* n of them counted already
RECURSIVE NameRun(_, _, _)
NameRun(s, i, n) ==
    IF n < 32 /\ i < Len(s) /\ CharAt(s, i) \notin NameStop
    THEN NameRun(s, i + 1, n + 1) ELSE n

\* the optional ";" of a reference that ends just before position j
Semi(s, j) == IF j < Len(s) /\ CharAt(s, j) = ";" THEN 1 ELSE 0

\* _replace_charref on a named reference m (the text after "&"): the whole
\* name, else its longest proper prefix of two characters or more that is a
\* name, else the text unchanged
NamedRef(m) ==
    IF m \in DOMAIN html5 THEN html5[m]
    ELSE LET pre == {x \in 2..(Len(m) - 1) : Slice(m, 0, x) \in DOMAIN html5}
         IN  IF pre = {} THEN "&" \o m
             ELSE LET x == CHOOSE y \in pre : \A z \in pre : z <= y
                  IN  html5[Slice(m, 0, x)] \o Slice(m, x, Len(m))

\* re.sub from position i on, amps being the positions of "&" in s: the
\* text up to the next "&" is copied; a reference there is replaced, and a
\* "&" that starts none is copied
RECURSIVE unescapeFrom(_, _, _)
unescapeFrom(s, i, amps) ==
    LET a == NextAt(amps, i)
    IN  IF a = -1 THEN Slice(s, i, Len(s))
        ELSE IF a + 1 < Len(s) /\ CharAt(s, a + 1) = "#"
        THEN LET d == DigitRun(s, a + 2)
                 e == a + 2 + d + Semi(s, a + 2 + d)
             IN  IF d = 0 THEN Slice(s, i, a + 1) \o unescapeFrom(s, a + 1, amps)
                 ELSE Slice(s, i, a) \o chr(int(Slice(s, a + 2, a + 2 + d)))
                          \o unescapeFrom(s, e, amps)
        ELSE LET n == NameRun(s, a + 1, 0)
                 e == a + 1 + n + Semi(s, a + 1 + n)
             IN  IF n = 0 THEN Slice(s, i, a + 1) \o unescapeFrom(s, a + 1, amps)
                 ELSE Slice(s, i, a) \o NamedRef(Slice(s, a + 1, e))
                          \o unescapeFrom(s, e, amps)

unescape(s) == unescapeFrom(s, 0, Occurrences(s, "&"))

(***************************************************************************)
(* Python values: what json.loads returns and what the stages pass on.     *)
(* A dict is a function from its keys, a list a sequence.                  *)
(***************************************************************************)
JObject(f) == [t |-> "dict", v |-> f]

JArray(q) == [t |-> "list", v |-> q]

JNumber(n) == [t |-> "int", v |-> n]

JString(s) == [t |-> "str", v |-> s]

\* a call's outcome: it raises an exception or returns a value
Raise(type, msg) == [raised |-> TRUE, type |-> type, msg |-> msg]

Return(value) == [raised |-> FALSE, value |-> value]

\* faulty variant of the truth test: every value counts as true, so
\* "if not coordinates" never fires
TruthyAlways(x) == TRUE

\* bool(x) of a JSON value
Truthy(x) ==
    CASE x.t = "dict" -> DOMAIN x.v # {}
      [] x.t = "list" -> Len(x.v) > 0
      [] x.t = "str"  -> Len(x.v) > 0
      [] x.t = "int"  -> x.v # 0

\* repr(k) of a str key, as KeyError shows it
repr(k) == "'" \o k \o "'"

\* x[k] for a str key k
getitem(x, k) ==
    IF x.t = "dict"
    THEN IF k \in DOMAIN x.v THEN Return(x.v[k]) ELSE Raise("KeyError", repr(k))
    ELSE Raise("TypeError", "'" \o x.t \o "' object is not subscriptable by str")

\* x[keys[1]][keys[2]]...: the lookups left to right, the first fault ending it
RECURSIVE getpath(_, _)
getpath(x, keys) ==
    IF Len(keys) = 0 THEN Return(x)
    ELSE LET r == getitem(x, Head(keys))
         IN  IF r.raised THEN r ELSE getpath(r.value, Tail(keys))

\* the keys line 106 and line 111 look up
ItemsPath == <<"page", "_embedded", "tour", "_embedded", "coordinates", "items">>

NamePath == <<"page", "_embedded", "tour", "name">>

(***************************************************************************)
(* json_to_gpx (lines 93-135).                                             *)
(***************************************************************************)
\* str(n) of an int, as the f-string formats it
str(n) == ToString(n)

\* gpxpy.gpx.GPXTrackPoint(latitude, longitude, elevation)
GPXTrackPoint(lat, lng, alt) == [latitude |-> lat, longitude |-> lng, elevation |-> alt]

\* faulty variant of the range check: the bounds themselves are refused
InRangeStrict(lat, lng) == (-90 < lat.v /\ lat.v < 90) /\ (-180 < lng.v /\ lng.v < 180)

\* lines 128-129: the range check of one record
InRange(lat, lng) == (-90 <= lat.v /\ lat.v <= 90) /\ (-180 <= lng.v /\ lng.v <= 180)

\* faulty variant of the loop: a record equal to the one before it is dropped
RECURSIVE CreatePointsDedup(_, _, _)
CreatePointsDedup(coordinates, i, points) ==
    IF i > Len(coordinates) THEN Return(points)
    ELSE LET item == coordinates[i]
             lat  == getitem(item, "lat")
             lng  == getitem(item, "lng")
             alt  == getitem(item, "alt")
         IN  IF lat.raised THEN lat
             ELSE IF lng.raised THEN lng
             ELSE IF alt.raised THEN alt
             ELSE IF ~InRange(lat.value, lng.value)
                  THEN Raise("ValueError",
                             "Invalid coordinates: lat=" \o str(lat.value.v)
                                 \o ", lng=" \o str(lng.value.v))
                  ELSE LET p == GPXTrackPoint(lat.value, lng.value, alt.value)
                       IN  CreatePointsDedup(coordinates, i + 1,
                               IF points # << >> /\ points[Len(points)] = p
                               THEN points ELSE Append(points, p))

\* lines 122-133: the loop over coordinates from its i-th item on, points
\* being the segment's points so far
RECURSIVE CreatePoints(_, _, _)
CreatePoints(coordinates, i, points) ==
    IF i > Len(coordinates) THEN Return(points)
    ELSE LET item == coordinates[i]
             lat  == getitem(item, "lat")
             lng  == getitem(item, "lng")
             alt  == getitem(item, "alt")
         IN  IF lat.raised THEN lat
             ELSE IF lng.raised THEN lng
             ELSE IF alt.raised THEN alt
             ELSE IF ~InRange(lat.value, lng.value)
                  THEN Raise("ValueError",
                             "Invalid coordinates: lat=" \o str(lat.value.v)
                                 \o ", lng=" \o str(lng.value.v))
                  ELSE CreatePoints(coordinates, i + 1,
                           Append(points,
                                  GPXTrackPoint(lat.value, lng.value, alt.value)))

\* the GPX object of lines 110-119 once its segment holds points
GPX(name, points) ==
    [name |-> name, tracks |-> << [segments |-> << [points |-> points] >>] >>]

json_to_gpx(json_data) ==
    LET coordinates == getpath(json_data, ItemsPath)
        name        == getpath(json_data, NamePath)
    IN  IF coordinates.raised THEN coordinates
        ELSE IF ~Truthy(coordinates.value)
             THEN Raise("ValueError", "No coordinates found in tour data")
        ELSE IF name.raised THEN name
        ELSE IF coordinates.value.t # "list"
             THEN Raise("TypeError", "coordinate record is not subscriptable by str")
        ELSE LET points == CreatePoints(coordinates.value.v, 1, << >>)
             IN  IF points.raised THEN points
                 ELSE Return(GPX(name.value, points.value))

(***************************************************************************)
(* The tour documents a page may embed, each with its JSON text.  A        *)
(* document is described by how many keys of the path                      *)
(* page._embedded.tour._embedded.coordinates.items it holds (depth), by    *)
(* what stands where the path breaks off (an empty dict or a str), by the  *)
(* tour's name, if any, and by its coordinate records.                     *)
(***************************************************************************)
\* <<lat, lng, alt>>: inside, on and beyond each limit of the valid range
Records ==
    { <<45, 9, 100>>, <<-90, -180, 0>>, <<90, 180, -5>>,
      <<91, 9, 1>>, <<-91, 9, 2>>, <<45, 181, 3>>, <<45, -181, 4>>, <<91, 181, 7>> }

Names == {"R", "Test Tour"}

SeqsUpTo(S, n) == UNION {[1..k -> S] : k \in 0..n}

DocDescs ==
    { d \in [depth : 0..6, leaf : {"dict", "str"}, name : SeqsUpTo(Names, 1),
             items : SeqsUpTo(Records, MaxItems)] :
        /\ d.depth < 6 => d.items = << >>
        /\ d.depth = 6 => d.leaf = "dict"
        /\ (d.depth < 3 \/ (d.depth = 3 /\ d.leaf = "str")) => d.name = << >> }

RecordValue(r) ==
    JObject([lat |-> JNumber(r[1]), lng |-> JNumber(r[2]), alt |-> JNumber(r[3])])

RecordText(r) ==
    "{\"lat\":" \o ToString(r[1]) \o ",\"lng\":" \o ToString(r[2])
        \o ",\"alt\":" \o ToString(r[3]) \o "}"

RECURSIVE RecordsText(_, _)
RecordsText(items, i) ==
    IF i > Len(items) THEN ""
    ELSE (IF i > 1 THEN "," ELSE "") \o RecordText(items[i]) \o RecordsText(items, i + 1)

\* the value at nesting level k of document d
RECURSIVE ValueAt(_, _)
ValueAt(d, k) ==
    IF k = 6 THEN JArray([i \in 1..Len(d.items) |-> RecordValue(d.items[i])])
    ELSE IF k = d.depth /\ d.leaf = "str" THEN JString("x")
    ELSE LET nm    == IF k = 3 /\ d.name # << >>
                      THEN "name" :> JString(d.name[1]) ELSE << >>
             child == IF k < d.depth
                      THEN ItemsPath[k + 1] :> ValueAt(d, k + 1) ELSE << >>
         IN  JObject(nm @@ child)

\* its JSON text
RECURSIVE TextAt(_, _)
TextAt(d, k) ==
    IF k = 6 THEN "[" \o RecordsText(d.items, 1) \o "]"
    ELSE IF k = d.depth /\ d.leaf = "str" THEN "\"x\""
    ELSE LET nm    == IF k = 3 /\ d.name # << >>
                      THEN "\"name\":\"" \o d.name[1] \o "\"" ELSE ""
             child == IF k < d.depth
                      THEN "\"" \o ItemsPath[k + 1] \o "\":" \o TextAt(d, k + 1) ELSE ""
             comma == IF nm # "" /\ child # "" THEN "," ELSE ""
         IN  "{" \o nm \o comma \o child \o "}"

DocValue(d) == ValueAt(d, 0)

DocText(d) == TextAt(d, 0)

\* every document's text with the document
DocTable == { <<DocText(d), d>> : d \in DocDescs }

(***************************************************************************)
(* json.loads on the texts a run can meet: the text of a document, a JSON  *)
(* string literal, or no JSON at all (JSONDecodeError).                    *)
(***************************************************************************)
\* the characters of a string literal's body from position i on, decoded;
\* "invalid" in front marks a body that is no JSON string
RECURSIVE StringBody(_, _)
StringBody(b, i) ==
    IF i >= Len(b) THEN [ok |-> TRUE, s |-> ""]
    ELSE IF CharAt(b, i) = "\""  THEN [ok |-> FALSE, s |-> ""]
    ELSE IF CharAt(b, i) = "\\"
         THEN IF i + 1 < Len(b) /\ CharAt(b, i + 1) \in {"\"", "\\", "/"}
              THEN LET r == StringBody(b, i + 2)
                   IN  [ok |-> r.ok, s |-> CharAt(b, i + 1) \o r.s]
              ELSE [ok |-> FALSE, s |-> ""]
         ELSE LET r == StringBody(b, i + 1)
              IN  [ok |-> r.ok, s |-> CharAt(b, i) \o r.s]

json_loads(s) ==
    IF \E p \in DocTable : p[1] = s
    THEN Return(DocValue((CHOOSE p \in DocTable : p[1] = s)[2]))
    ELSE IF Len(s) >= 2 /\ CharAt(s, 0) = "\"" /\ CharAt(s, Len(s) - 1) = "\""
              /\ StringBody(Slice(s, 1, Len(s) - 1), 0).ok
         THEN Return(JString(StringBody(Slice(s, 1, Len(s) - 1), 0).s))
         ELSE Raise("JSONDecodeError", "invalid JSON text")

(***************************************************************************)
(* sanitize_json_string (lines 38-51) and extract_json_from_html           *)
(* (lines 54-90).                                                          *)
(***************************************************************************)
start_marker == "kmtBoot.setProps(\""

end_marker == "\");"

\* faulty variant of the sanitization: the backslash steps run before the
\* entities are decoded
sanitize_backslash_first(json_string) ==
    LET s1 == replace(json_string, "\\\\", "\\")
        s2 == replace(s1, "\\\"", "\"")
        s3 == unescape(s2)
    IN  s3

\* lines 48-51: decode the entities, then undo the backslash escapes
sanitize_json_string(json_string) ==
    LET s1 == unescape(json_string)
        s2 == replace(s1, "\\\\", "\\")
        s3 == replace(s2, "\\\"", "\"")
    IN  s3

\* faulty variant of the search: the end marker is searched from the start
\* of the text
find_end_anywhere(html, start) == find(html, end_marker, 0)

\* line 76: the end marker is searched from just past the start marker
find_end(html, start) == find(html, end_marker, start)

\* The outcome of extract_json_from_html(html) with the locals it reached
\* and what it printed.
extract_json_from_html(html) ==
    LET start0    == find(html, start_marker, 0)
        start     == start0 + Len(start_marker)
        end       == find_end(html, start)
        htmljson  == Slice(html, start, end)
        sanitized == sanitize_json_string(unescape(htmljson))
        result    == json_loads(sanitized)
        none      == [htmljson |-> << >>, sanitized |-> << >>, printed |-> << >>]
    IN  IF start0 = -1
        THEN Raise("ValueError", "Start marker not found") @@ none
        ELSE IF end = -1
        THEN Raise("ValueError", "End marker not found") @@ none
        ELSE IF result.raised
        THEN result @@ [htmljson  |-> <<htmljson>>, sanitized |-> <<sanitized>>,
                        printed   |-> <<"Failed to decode JSON. Problematic string:",
                                        sanitized>>]
        ELSE result @@ [htmljson |-> <<htmljson>>, sanitized |-> <<sanitized>>,
                        printed |-> << >>]

(***************************************************************************)
(* The pages a server may answer with.                                     *)
(***************************************************************************)
\* fragments around and of the two markers
MarkerPieces == {start_marker, end_marker, ");", "\"", "x", "{}"}

\* fragments of a payload: entities, once and twice encoded, backslashes,
\* quotes
PayloadPieces == {"&amp;", "amp;", "&quot;", "quot;", "&#92;", "#92;", "\\", "\"", "x"}

RECURSIVE Concat(_)
Concat(q) == IF Len(q) = 0 THEN "" ELSE Head(q) \o Concat(Tail(q))

MarkerPages == { Concat(q) : q \in SeqsUpTo(MarkerPieces, MaxPieces) }

PayloadPages ==
    { start_marker \o Concat(q) \o end_marker : q \in SeqsUpTo(PayloadPieces, MaxPayload) }

\* how the server writes a JSON text's double quotes inside the script's
\* string literal
Encodings == {"\\\"", "\\\\\"", "&quot;", "&amp;quot;", "\\&quot;", "&#92;&#34;"}

DocPage(d, quote) ==
    "<script>" \o start_marker \o replace(DocText(d), "\"", quote) \o end_marker
        \o "</script>"

DocPages ==
    { DocPage(d, "\\\"") : d \in DocDescs }
        \cup { DocPage(d, q) : d \in {e \in DocDescs : Len(e.items) <= 1}, q \in Encodings }

Pages == MarkerPages \cup PayloadPages \cup DocPages

(***************************************************************************)
(* write_gpx (lines 138-150) and the library calls of the run.             *)
(***************************************************************************)
\* a file at the output path: absent, or present with its content
NoFile == [exists |-> FALSE, data |-> ""]

File(data) == [exists |-> TRUE, data |-> data]

\* gpx.to_xml(): the GPX document's elements in order (name, one trk, one
\* trkseg, one trkpt per point with lat, lon and ele)
RECURSIVE PointsXml(_, _)
PointsXml(points, i) ==
    IF i > Len(points) THEN ""
    ELSE "<trkpt lat=\"" \o str(points[i].latitude.v) \o "\" lon=\""
             \o str(points[i].longitude.v) \o "\"><ele>"
             \o str(points[i].elevation.v) \o "</ele></trkpt>"
             \o PointsXml(points, i + 1)

to_xml(g) ==
    "<gpx><metadata><name>" \o g.name.v \o "</name></metadata><trk><trkseg>"
        \o PointsXml(g.tracks[1].segments[1].points, 1) \o "</trkseg></trk></gpx>"

\* how requests.get / raise_for_status may end (line 33, line 34)
FetchOutcomes == {"ok", "ConnectionError", "Timeout", "HTTPError"}

\* how open(filename, "w") may end (line 149)
OpenOutcomes == {"ok", "PermissionError", "FileNotFoundError"}

(***************************************************************************)
(* main's error boundary (lines 168-183).                                  *)
(***************************************************************************)
\* the classes an exception of a type is an instance of
Classes(type) ==
    {type} \cup
    CASE type = "JSONDecodeError" -> {"ValueError"}
      [] type \in {"HTTPError", "ConnectionError", "Timeout"}
                                  -> {"RequestException", "OSError"}
      [] type \in {"PermissionError", "FileNotFoundError"} -> {"OSError"}
      [] type = "KeyError"        -> {"LookupError"}
      [] OTHER                    -> {}

\* faulty variant of the clauses: ValueError is tried before its subclass
ExceptClausesValueFirst ==
    << [class |-> "ValueError",       label |-> "Value error"],
       [class |-> "JSONDecodeError",  label |-> "JSON decoding error"],
       [class |-> "RequestException", label |-> "HTTP request error"],
       [class |-> "OSError",          label |-> "File system error"] >>

\* the except clauses in the order main tries them, each with the label it
\* prints
ExceptClauses ==
    << [class |-> "JSONDecodeError",  label |-> "JSON decoding error"],
       [class |-> "ValueError",       label |-> "Value error"],
       [class |-> "RequestException", label |-> "HTTP request error"],
       [class |-> "OSError",          label |-> "File system error"] >>

\* the first clause that catches an exception of the type; 0 when none does
Handler(type) ==
    LET hits == {i \in 1..Len(ExceptClauses) : ExceptClauses[i].class \in Classes(type)}
    IN  IF hits = {} THEN 0 ELSE CHOOSE i \in hits : \A j \in hits : i <= j

\* what traceback.print_exc() and the interpreter's excepthook write
Traceback(e) == "Traceback (most recent call last): " \o e.type \o ": " \o e.msg

(***************************************************************************)
(* The run.  page and preFile are the run's surroundings: the body the     *)
(* server holds for the URL and the file at the output path before the     *)
(* run.  A local that is not bound yet is << >>, a bound one <<value>>.    *)
(***************************************************************************)
VARIABLES
    page,            \* the body the server answers with
    preFile,         \* the file at args.output before the run
    pc,              \* where main is
    html,            \* main's html
    htmljson,        \* extract_json_from_html's htmljson
    sanitized,       \* extract_json_from_html's sanitized
    extracted_data,  \* main's extracted_data
    gpx,             \* main's gpx
    xml,             \* the value of gpx.to_xml() in write_gpx
    file,            \* the file at args.output
    exc,             \* the exception propagating to main's except clauses
    stdout,          \* the lines printed
    stderr,          \* the tracebacks written
    exitStatus,      \* the process's exit status
    netCalls,        \* the requests sent
    completed        \* the stages that returned, in order

vars == <<page, preFile, pc, html, htmljson, sanitized, extracted_data, gpx, xml,
          file, exc, stdout, stderr, exitStatus, netCalls, completed>>

Init ==
    /\ page \in Pages
    /\ preFile \in {NoFile, File("<gpx>old</gpx>")}
    /\ pc = "fetch"
    /\ html = << >>
    /\ htmljson = << >>
    /\ sanitized = << >>
    /\ extracted_data = << >>
    /\ gpx = << >>
    /\ xml = << >>
    /\ file = preFile
    /\ exc = << >>
    /\ stdout = << >>
    /\ stderr = << >>
    /\ exitStatus = << >>
    /\ netCalls = 0
    /\ completed = << >>

\* a stage raises: control passes to main's except clauses
Raised(e) ==
    /\ exc' = << [type |-> e.type, msg |-> e.msg] >>
    /\ pc' = "except"

\* faulty variant of the fetch: a failed request is sent once more
FetchRetry ==
    /\ pc = "fetch"
    /\ netCalls' = netCalls + 1
    /\ \E outcome \in FetchOutcomes :
          IF outcome = "ok"
          THEN /\ html' = <<page>>
               /\ completed' = Append(completed, "make_http_request")
               /\ pc' = "extract"
               /\ exc' = exc
          ELSE IF netCalls = 0
          THEN UNCHANGED <<html, completed, pc, exc>>
          ELSE /\ Raised(Raise(outcome, "request failed"))
               /\ UNCHANGED <<html, completed>>
    /\ UNCHANGED <<page, preFile, htmljson, sanitized, extracted_data, gpx, xml,
                   file, stdout, stderr, exitStatus>>

\* line 164, make_http_request (lines 32-35): one GET; a transport failure
\* or a non-2xx status raises
Fetch ==
    /\ pc = "fetch"
    /\ netCalls' = netCalls + 1
    /\ \E outcome \in FetchOutcomes :
          IF outcome = "ok"
          THEN /\ html' = <<page>>
               /\ completed' = Append(completed, "make_http_request")
               /\ pc' = "extract"
               /\ exc' = exc
          ELSE /\ Raised(Raise(outcome, "request failed"))
               /\ UNCHANGED <<html, completed>>
    /\ UNCHANGED <<page, preFile, htmljson, sanitized, extracted_data, gpx, xml,
                   file, stdout, stderr, exitStatus>>

\* line 165, extract_json_from_html (lines 68-90)
Extract ==
    /\ pc = "extract"
    /\ LET r == extract_json_from_html(html[1])
       IN  /\ htmljson' = r.htmljson
           /\ sanitized' = r.sanitized
           /\ stdout' = stdout \o r.printed
           /\ IF r.raised
              THEN /\ Raised(r)
                   /\ UNCHANGED <<extracted_data, completed>>
              ELSE /\ extracted_data' = <<r.value>>
                   /\ completed' = Append(completed, "extract_json_from_html")
                   /\ pc' = "convert"
                   /\ exc' = exc
    /\ UNCHANGED <<page, preFile, html, gpx, xml, file, stderr, exitStatus, netCalls>>

\* line 166, json_to_gpx (lines 106-135)
Convert ==
    /\ pc = "convert"
    /\ LET r == json_to_gpx(extracted_data[1])
       IN  IF r.raised
           THEN /\ Raised(r)
                /\ UNCHANGED <<gpx, completed>>
           ELSE /\ gpx' = <<r.value>>
                /\ completed' = Append(completed, "json_to_gpx")
                /\ pc' = "open"
                /\ exc' = exc
    /\ UNCHANGED <<page, preFile, html, htmljson, sanitized, extracted_data, xml,
                   file, stdout, stderr, exitStatus, netCalls>>

\* line 167 and line 149: write_gpx opens the file for writing, which
\* creates it or cuts it to nothing; a failing open leaves it alone
WriteOpen ==
    /\ pc = "open"
    /\ \E outcome \in OpenOutcomes :
          /\ outcome = "FileNotFoundError" => ~file.exists
          /\ IF outcome = "ok"
             THEN /\ file' = File("")
                  /\ pc' = "to_xml"
                  /\ exc' = exc
             ELSE /\ Raised(Raise(outcome, "cannot open the output file"))
                  /\ file' = file
    /\ UNCHANGED <<page, preFile, html, htmljson, sanitized, extracted_data, gpx,
                   xml, stdout, stderr, exitStatus, netCalls, completed>>

\* line 150, gpx.to_xml(): evaluated with the file open; when it raises
\* (the library fails, memory runs out) the with block closes the file
ToXml ==
    /\ pc = "to_xml"
    /\ \/ /\ xml' = <<to_xml(gpx[1])>>
          /\ pc' = "f_write"
          /\ exc' = exc
       \/ /\ Raised(Raise("MemoryError", "serialization failed"))
          /\ xml' = xml
    /\ UNCHANGED <<page, preFile, html, htmljson, sanitized, extracted_data, gpx,
                   file, stdout, stderr, exitStatus, netCalls, completed>>

\* line 150, f.write(...) and the close that ends the with block: all of
\* the text reaches the file, or the device fails after n characters of it
FWrite ==
    /\ pc = "f_write"
    /\ \/ /\ file' = File(xml[1])
          /\ completed' = Append(completed, "write_gpx")
          /\ pc' = "return"
          /\ exc' = exc
       \/ \E n \in {0, Len(xml[1]) \div 2} :
             /\ file' = File(Slice(xml[1], 0, n))
             /\ Raised(Raise("OSError", "No space left on device"))
             /\ completed' = completed
    /\ UNCHANGED <<page, preFile, html, htmljson, sanitized, extracted_data, gpx,
                   xml, stdout, stderr, exitStatus, netCalls>>

\* main returns after line 167: the interpreter exits with status 0
MainReturn ==
    /\ pc = "return"
    /\ exitStatus' = <<0>>
    /\ pc' = "done"
    /\ UNCHANGED <<page, preFile, html, htmljson, sanitized, extracted_data, gpx,
                   xml, file, exc, stdout, stderr, netCalls, completed>>

\* faulty variant of the clauses: the report is made but sys.exit(1) is left
\* out, so main returns
ExceptNoExit ==
    /\ pc = "except"
    /\ Handler(exc[1].type) # 0
    /\ stdout' = Append(stdout,
                        ExceptClauses[Handler(exc[1].type)].label \o ": " \o exc[1].msg)
    /\ stderr' = Append(stderr, Traceback(exc[1]))
    /\ exitStatus' = <<0>>
    /\ pc' = "done"
    /\ UNCHANGED <<page, preFile, html, htmljson, sanitized, extracted_data, gpx,
                   xml, file, exc, netCalls, completed>>

\* lines 168-183: the first clause that catches the exception prints its
\* label with the exception's text, writes the traceback and exits with 1
Except ==
    /\ pc = "except"
    /\ Handler(exc[1].type) # 0
    /\ stdout' = Append(stdout,
                        ExceptClauses[Handler(exc[1].type)].label \o ": " \o exc[1].msg)
    /\ stderr' = Append(stderr, Traceback(exc[1]))
    /\ exitStatus' = <<1>>
    /\ pc' = "done"
    /\ UNCHANGED <<page, preFile, html, htmljson, sanitized, extracted_data, gpx,
                   xml, file, exc, netCalls, completed>>

\* no clause catches the exception: it leaves main, the interpreter writes
\* the traceback and exits with status 1
Uncaught ==
    /\ pc = "except"
    /\ Handler(exc[1].type) = 0
    /\ stderr' = Append(stderr, Traceback(exc[1]))
    /\ exitStatus' = <<1>>
    /\ pc' = "done"
    /\ UNCHANGED <<page, preFile, html, htmljson, sanitized, extracted_data, gpx,
                   xml, file, exc, stdout, netCalls, completed>>

\* the four stages in the order main calls them
Stages == <<"make_http_request", "extract_json_from_html", "json_to_gpx", "write_gpx">>

Next ==
    \/ Fetch
    \/ Extract
    \/ Convert
    \/ WriteOpen
    \/ ToXml
    \/ FWrite
    \/ MainReturn
    \/ Except
    \/ Uncaught

Spec == Init /\ [][Next]_vars

(***************************************************************************)
(* Vocabulary of the properties.                                           *)
(***************************************************************************)
\* the least element of a non-empty set of positions
First(S) == CHOOSE i \in S : \A j \in S : i <= j

\* the stages that returned are the first n
Completed(n) == completed = SubSeq(Stages, 1, n)

\* stage number n has run and raised
StageFailed(n) == Completed(n - 1) /\ exc # << >>

ExtractRan == html # << >> /\ pc # "extract"

ConvertRan == extracted_data # << >> /\ pc # "convert"

\* the run is over
Done == pc = "done"

\* the lines main's except clauses print
Labels == {"JSON decoding error", "Value error", "HTTP request error", "File system error"}

(***************************************************************************)
(* C1 (as claimed): when the run is over the output file either holds the  *)
(* complete serialized track or is as it was before the run.               *)
(***************************************************************************)
C1_CompleteOrUntouched ==
    Done => \/ file = preFile
            \/ gpx # << >> /\ file = File(to_xml(gpx[1]))

\* how far main has come
Rank(p) ==
    CASE p = "fetch"   -> 0
      [] p = "extract" -> 1
      [] p = "convert" -> 2
      [] p = "open"    -> 3
      [] p = "to_xml"  -> 4
      [] p = "f_write" -> 5
      [] p = "return"  -> 6
      [] p = "except"  -> 7
      [] p = "done"    -> 8

\* a step can be taken (Extract and Convert compute a total function of the
\* state: being at their place is all they need)
NotStuck ==
    \/ Done
    \/ pc \in {"extract", "convert"}
    \/ ENABLED (Fetch \/ WriteOpen \/ ToXml \/ FWrite \/ MainReturn \/ Except \/ Uncaught)

\* the exit status and the report of a run that has ended
ExitStatusRight ==
    /\ exitStatus # << >> <=> Done
    /\ Done =>
         /\ exitStatus \in {<<0>>, <<1>>}
         /\ exitStatus = <<0>> <=> Completed(4) /\ exc = << >>
         /\ exitStatus = <<1>> <=> \E n \in 1..4 : StageFailed(n)
         /\ exitStatus = <<1>> =>
              /\ stderr # << >> /\ stderr[Len(stderr)] = Traceback(exc[1])
              /\ exc[1].type \notin {"KeyError", "TypeError", "MemoryError"} =>
                   /\ stdout # << >>
                   /\ \E l \in Labels : stdout[Len(stdout)] = l \o ": " \o exc[1].msg

(***************************************************************************)
(* C2: every run comes to its end: each step moves main forward in its     *)
(* code, so no run has more steps than there are places, and no state      *)
(* short of the end is stuck.  The run ends with exit status 0 exactly     *)
(* when all four stages returned and with status 1 exactly when one of     *)
(* them raised; and in every failing run the error is written out before   *)
(* the exit: the traceback naming it always, and main's own line for a     *)
(* network, marker, parse, empty-route, invalid-coordinate or filesystem   *)
(* error.                                                                  *)
(***************************************************************************)
C2_ExitStatus ==
    /\ [][Rank(pc') > Rank(pc)]_vars
    /\ []NotStuck
    /\ []ExitStatusRight

\* a run whose write failed on the device has exited with 1, reported
C2_Witness ==
    /\ Done /\ StageFailed(4) /\ exc[1].type = "OSError"
    /\ exitStatus = <<1>>
    /\ stdout = <<"File system error: No space left on device">>

(***************************************************************************)
(* C3: one request is sent per run, never a second; the output file is     *)
(* opened only once fetch, extract and convert have returned, in that      *)
(* order; and a run in which one of the three raised exits with status 1   *)
(* with the file at the output path as it was.                             *)
(***************************************************************************)
C3_OpenAfterStages ==
    /\ netCalls = (IF pc = "fetch" THEN 0 ELSE 1)
    /\ (file # preFile \/ pc \in {"to_xml", "f_write", "return"}) =>
           SubSeq(completed, 1, 3) = SubSeq(Stages, 1, 3)
    /\ \A n \in 1..3 : StageFailed(n) =>
           /\ file = preFile
           /\ Done => exitStatus = <<1>>

\* a non-2xx answer, with a file already at the output path
C3_Witness ==
    /\ Done /\ StageFailed(1) /\ exc[1].type = "HTTPError"
    /\ preFile.exists /\ file = preFile /\ exitStatus = <<1>> /\ netCalls = 1

(***************************************************************************)
(* What a document holds, read off the parsed value.                       *)
(***************************************************************************)
\* the document's items, when the path to them exists and ends in a list
ItemsOf(doc) == getpath(doc, ItemsPath)

HasItems(doc) == ~ItemsOf(doc).raised /\ ItemsOf(doc).value.t = "list"

HasName(doc) == ~getpath(doc, NamePath).raised

Lat(item) == item.v["lat"].v

Lng(item) == item.v["lng"].v

\* a record within the valid range, limits included
Valid(item) ==
    /\ Lat(item) >= -90 /\ Lat(item) <= 90
    /\ Lng(item) >= -180 /\ Lng(item) <= 180

(***************************************************************************)
(* C4: for a tour document (it has its name) with a non-empty coordinate   *)
(* sequence, convert returns a Track if and only if every record has       *)
(* -90 <= lat <= 90 and -180 <= lng <= 180; otherwise it raises the        *)
(* invalid-coordinate error with the lat and lng of the first record out   *)
(* of range, no Track exists, and the output file stays as it was.         *)
(***************************************************************************)
C4_ValidatesEveryRecord ==
    (ConvertRan /\ HasName(extracted_data[1]) /\ HasItems(extracted_data[1])
       /\ Len(ItemsOf(extracted_data[1]).value.v) > 0) =>
    LET items == ItemsOf(extracted_data[1]).value.v
        bad   == {i \in 1..Len(items) : ~Valid(items[i])}
    IN  /\ gpx # << >> <=> bad = {}
        /\ bad # {} =>
             /\ StageFailed(3)
             /\ exc[1] = [type |-> "ValueError",
                          msg  |-> "Invalid coordinates: lat="
                                      \o ToString(Lat(items[First(bad)]))
                                      \o ", lng=" \o ToString(Lng(items[First(bad)]))]
             /\ gpx = << >>
             /\ xml = << >>
             /\ file = preFile

\* a valid record followed by one beyond the latitude limit
C4_Witness ==
    /\ Done /\ ConvertRan /\ HasName(extracted_data[1]) /\ HasItems(extracted_data[1])
    /\ LET items == ItemsOf(extracted_data[1]).value.v
       IN  /\ Len(items) = 2
           /\ Valid(items[1]) /\ Lat(items[1]) = 90
           /\ Lat(items[2]) = 91
    /\ exc[1].msg = "Invalid coordinates: lat=91, lng=9"

(***************************************************************************)
(* C5: a Track that convert returned has the document's tour name, one     *)
(* track with one segment, and one point per record, the i-th point        *)
(* holding the i-th record's lat, lng and alt.                             *)
(***************************************************************************)
C5_PointsMirrorRecords ==
    gpx # << >> =>
    LET doc    == extracted_data[1]
        items  == ItemsOf(doc).value.v
        tracks == gpx[1].tracks
    IN  /\ HasItems(doc) /\ HasName(doc)
        /\ gpx[1].name = doc.v["page"].v["_embedded"].v["tour"].v["name"]
        /\ Len(tracks) = 1
        /\ Len(tracks[1].segments) = 1
        /\ Len(tracks[1].segments[1].points) = Len(items)
        /\ \A i \in 1..Len(items) :
              LET p == tracks[1].segments[1].points[i]
              IN  /\ p.latitude = items[i].v["lat"]
                  /\ p.longitude = items[i].v["lng"]
                  /\ p.elevation = items[i].v["alt"]

\* two records of the tour "Test Tour", the northern one first
C5_Witness ==
    /\ gpx # << >>
    /\ LET points == gpx[1].tracks[1].segments[1].points
       IN  /\ Len(points) = 2
           /\ points[1].latitude.v > points[2].latitude.v
    /\ gpx[1].name.v = "Test Tour"

(***************************************************************************)
(* C6: extract raises "Start marker not found" exactly when the start      *)
(* marker occurs nowhere; it raises "End marker not found" exactly when    *)
(* the start marker occurs but no end marker begins at or after the        *)
(* position just past the first start marker; otherwise the raw payload    *)
(* is the text from there to the first such end marker, and holds no end   *)
(* marker.                                                                 *)
(***************************************************************************)
OccursAt(h, m, i) == i + Len(m) <= Len(h) /\ Slice(h, i, i + Len(m)) = m

StartPositions(h) == {i \in 0..Len(h) : OccursAt(h, start_marker, i)}

PastStart(h) == First(StartPositions(h)) + Len(start_marker)

EndPositionsAfter(h) == {j \in PastStart(h)..Len(h) : OccursAt(h, end_marker, j)}

MarkerError(msg) == StageFailed(2) /\ exc[1] = [type |-> "ValueError", msg |-> msg]

C6_MarkerSearch ==
    ExtractRan =>
    LET h == html[1]
    IN  /\ MarkerError("Start marker not found") <=> StartPositions(h) = {}
        /\ MarkerError("End marker not found") <=>
               StartPositions(h) # {} /\ EndPositionsAfter(h) = {}
        /\ IF StartPositions(h) # {} /\ EndPositionsAfter(h) # {}
           THEN /\ htmljson = <<Slice(h, PastStart(h), First(EndPositionsAfter(h)))>>
                /\ \A k \in 0..Len(htmljson[1]) : ~OccursAt(htmljson[1], end_marker, k)
           ELSE htmljson = << >>

\* an end marker stands before the start marker and none after it
C6_Witness ==
    /\ ExtractRan /\ MarkerError("End marker not found")
    /\ \E j \in 0..Len(html[1]) :
          OccursAt(html[1], end_marker, j) /\ j < First(StartPositions(html[1]))

(***************************************************************************)
(* C7: for a document whose items exist and are an empty sequence, convert *)
(* raises the empty-route error, whatever else the document holds; no      *)
(* Track exists and the output file stays as it was.                       *)
(***************************************************************************)
EmptyRoute(doc) == HasItems(doc) /\ Len(ItemsOf(doc).value.v) = 0

C7_EmptyRoute ==
    (ConvertRan /\ EmptyRoute(extracted_data[1])) =>
        /\ StageFailed(3)
        /\ exc[1] = [type |-> "ValueError", msg |-> "No coordinates found in tour data"]
        /\ gpx = << >>
        /\ xml = << >>
        /\ file = preFile
        /\ Done => exitStatus = <<1>>

\* an empty route in a document without a tour name
C7_Witness ==
    /\ Done /\ ConvertRan /\ EmptyRoute(extracted_data[1])
    /\ ~HasName(extracted_data[1])
    /\ stdout = <<"Value error: No coordinates found in tour data">>

(***************************************************************************)
(* C8 (as claimed): for a parsed document that lacks a key of the path     *)
(* page._embedded.tour._embedded.coordinates.items, convert's failure is   *)
(* one main reports: an except clause catches it and prints main's line    *)
(* before the exit with status 1.                                          *)
(***************************************************************************)
MissingPathKey(doc) == ItemsOf(doc).raised /\ ItemsOf(doc).type = "KeyError"

C8_SchemaMismatchReported ==
    (Done /\ ConvertRan /\ MissingPathKey(extracted_data[1])) =>
        /\ StageFailed(3)
        /\ Handler(exc[1].type) # 0
        /\ stdout # << >>
        /\ \E l \in Labels : stdout[Len(stdout)] = l \o ": " \o exc[1].msg
        /\ exitStatus = <<1>>

(***************************************************************************)
(* C9.  ParseFailed: json.loads raised in extract and the exception is on  *)
(* its way to, or was caught by, main.                                     *)
(***************************************************************************)
ParseFailed == StageFailed(2) /\ exc[1].type = "JSONDecodeError"

Range(q) == {q[i] : i \in 1..Len(q)}

\* what C9 says of a successful parse and of main's report
C9_Rest ==
    /\ ParseFailed <=> (sanitized # << >> /\ extracted_data = << >> /\ pc # "convert"
                           /\ json_loads(sanitized[1]).raised)
    /\ (ParseFailed /\ Done) =>
           /\ "JSON decoding error: " \o exc[1].msg \in Range(stdout)
           /\ "Value error: " \o exc[1].msg \notin Range(stdout)
    /\ (extracted_data # << >> /\ pc = "convert") =>
           /\ stdout = << >> /\ stderr = << >>
           /\ json_loads(sanitized[1]) = Return(extracted_data[1])

(***************************************************************************)
(* C9 (as claimed): when the parse fails, the sanitized string has been    *)
(* written to the error channel by the time the failure propagates; main   *)
(* reports a JSON decoding error, not a value error; no document is        *)
(* returned.  When the parse succeeds nothing is emitted and the parsed    *)
(* document is returned as it is.                                          *)
(***************************************************************************)
C9_EmittedToErrorChannel ==
    /\ ParseFailed => sanitized[1] \in Range(stderr)
    /\ C9_Rest

(***************************************************************************)
(* C9 (amended): as claimed, except that the sanitized string is printed   *)
(* to standard output (after the line "Failed to decode JSON. Problematic  *)
(* string:"), and the error channel receives only the traceback that main  *)
(* writes afterwards.                                                      *)
(***************************************************************************)
C9_EmittedToStdout ==
    /\ ParseFailed =>
           /\ SubSeq(stdout, 1, 2) =
                  <<"Failed to decode JSON. Problematic string:", sanitized[1]>>
           /\ pc = "except" => Len(stdout) = 2 /\ stderr = << >>
           /\ Done => stdout[3] = "JSON decoding error: " \o exc[1].msg
                          /\ stderr = <<Traceback(exc[1])>>
    /\ C9_Rest

\* the payload \"x is sanitized to "x, which is no JSON
C9_Witness ==
    /\ ParseFailed /\ pc = "except"
    /\ sanitized = <<"\"x">>
    /\ stdout = <<"Failed to decode JSON. Problematic string:", "\"x">>

(***************************************************************************)
(* C10: the payload is sanitized by decoding HTML entities twice, then     *)
(* collapsing doubled backslashes, then turning backslash-quote into a     *)
(* quote, in this order; and a payload without entity and without          *)
(* backslash is left as it is, so that sanitizing it again changes         *)
(* nothing.                                                                *)
(***************************************************************************)
Decode(s) == unescape(s)

Collapse(s) == replace(s, "\\\\", "\\")

Unquote(s) == replace(s, "\\\"", "\"")

\* s holds a reference html.unescape decodes: "&" before a name of the
\* table or before "#" and a digit
HasEntity(s) ==
    \E a \in 0..Len(s) :
        /\ OccursAt(s, "&", a)
        /\ \/ \E n \in DOMAIN html5 : OccursAt(s, n, a + 1)
           \/ \E d \in Digits : OccursAt(s, "#" \o d, a + 1)

Clean(s) == ~HasEntity(s) /\ \A i \in 0..Len(s) : ~OccursAt(s, "\\", i)

C10_SanitizeOrder ==
    htmljson # << >> =>
        /\ sanitized = <<Unquote(Collapse(Decode(Decode(htmljson[1]))))>>
        /\ Clean(htmljson[1]) =>
               /\ sanitized = htmljson
               /\ sanitize_json_string(unescape(sanitized[1])) = sanitized[1]

\* a backslash that only the second decoding pass brings out, next to one
\* the first pass brings out: the two collapse into one
C10_Witness ==
    /\ htmljson = <<"&amp;#92;&#92;">>
    /\ sanitized = <<"\\">>

=============================================================================
